---------------------------- MODULE Spec2Model ----------------------------
(***************************************************************************)
(* Basketball Stats Tracker backend (src/backend/main.py).                 *)
(*                                                                         *)
(* The program reads a box-score CSV once at import time (_load_data),     *)
(* keeps it in the module global DATAFRAME and serves three read-only      *)
(* endpoints over it: list_games, game_players and game_charts.            *)
(*                                                                         *)
(* Representation.                                                         *)
(*  - A raw CSV cell is a record [k, v]: k = "num" for a numeric literal   *)
(*    with integer value v (negative literals included: the loader takes   *)
(*    any number), "text" for non-numeric text, "empty" for a missing      *)
(*    cell.  The gameId column is well-formed.                             *)
(*  - A raw cell of a text column is its text, "" for a missing cell.      *)
(*    In the table it is a record [k, s]: k = "str" for a string, "nan"    *)
(*    for the float NaN that read_csv puts for a missing cell, "int" or    *)
(*    "float" when read_csv parsed the whole column as numbers; s is the   *)
(*    text.                                                                *)
(*  - The response models are pydantic models (pydantic 2): a str field    *)
(*    does not take a float or an int, the constructor raises, and the     *)
(*    handler, which catches nothing, answers 500.                         *)
(*  - A number held by pandas / Python is a record [nan, n, d]: the        *)
(*    rational n/d in lowest terms with d > 0, or NaN.  It stands for an   *)
(*    int, or for the double nearest to n/d.                               *)
(*  - The True Shooting expression is computed twice: exactly, on the      *)
(*    rationals (calculate_true_shooting), and in IEEE-754 doubles, bit    *)
(*    for bit (float_true_shooting).  round() reads the exact value when   *)
(*    that decides the result and the double when the exact value lies     *)
(*    exactly halfway between two results (RoundFloat).                    *)
(*  - A string that the code builds (str(gameId), the f-string of          *)
(*    list_games) is a sequence: of decimal digits for str of an int, of   *)
(*    its concatenated parts for the f-string.                             *)
(***************************************************************************)
EXTENDS Integers, Sequences, FiniteSets, TLC

VARIABLES
    source,     \* the rows of the CSV file at DATA_PATH (raw cells)
    phase,      \* "import" | "serving" | "failed"
    DATAFRAME,  \* the global table built by _load_data
    response,   \* the response of the last request served
    first       \* observer: the first response served, and whether the
                \* same request has been served again since

vars == <<source, phase, DATAFRAME, response, first>>

---------------------------------------------------------------------------
(* Bounds of the explored inputs.                                          *)

MaxRows == 3
MaxPoints == 31
MaxFGA == 21
MaxFTA == 6

---------------------------------------------------------------------------
(* Numbers: rationals in lowest terms, or NaN.                             *)

Abs(x) == IF x < 0 THEN 0 - x ELSE x

RECURSIVE GCD(_, _)
GCD(a, b) == IF b = 0 THEN a ELSE GCD(b, a % b)

NaN == [nan |-> TRUE, n |-> 0, d |-> 1]

Frac(n, d) ==
    LET g == GCD(Abs(n), Abs(d))
        s == IF d < 0 THEN 0 - 1 ELSE 1
    IN  [nan |-> FALSE, n |-> (s * n) \div g, d |-> (s * d) \div g]

Num(i) == [nan |-> FALSE, n |-> i, d |-> 1]

Add(x, y) == IF x.nan \/ y.nan THEN NaN ELSE Frac(x.n * y.d + y.n * x.d, x.d * y.d)
Sub(x, y) == IF x.nan \/ y.nan THEN NaN ELSE Frac(x.n * y.d - y.n * x.d, x.d * y.d)
Mul(x, y) == IF x.nan \/ y.nan THEN NaN ELSE Frac(x.n * y.n, x.d * y.d)
\* x / y; 0/0 is NaN as in numpy (a nonzero x over 0 is not needed: the
\* only division of the source is guarded by denom > 0).
Div(x, y) == IF x.nan \/ y.nan \/ y.n = 0 THEN NaN ELSE Frac(x.n * y.d, x.d * y.n)
\* x > y; every comparison with NaN is False.
Gt(x, y) == ~x.nan /\ ~y.nan /\ x.n * y.d > y.n * x.d

---------------------------------------------------------------------------
(* IEEE-754 doubles, which the True Shooting arithmetic and round() work   *)
(* in.  A natural number of any size is a sequence of limbs in base 2^15,  *)
(* least significant first, without a leading zero limb; a double is       *)
(* [neg, m, e]: the value (-1)^neg * m * 2^e with m below 2^53 (or 2^53    *)
(* itself after a carry).  Every operation returns the double nearest to   *)
(* the exact result, ties to even.                                         *)

Limb == 2 ^ 15

RECURSIVE LNorm(_)
LNorm(x) ==
    IF x = <<>> \/ x[Len(x)] # 0 THEN x ELSE LNorm(SubSeq(x, 1, Len(x) - 1))

RECURSIVE LFromInt(_)
LFromInt(i) == IF i = 0 THEN <<>> ELSE <<i % Limb>> \o LFromInt(i \div Limb)

RECURSIVE LToInt(_)
LToInt(x) == IF x = <<>> THEN 0 ELSE x[1] + Limb * LToInt(Tail(x))

LAt(x, i) == IF i <= Len(x) THEN x[i] ELSE 0

\* The limbs from the i-th on of x + y + c.
RECURSIVE LAddFrom(_, _, _, _)
LAddFrom(x, y, i, c) ==
    IF i > Len(x) /\ i > Len(y) THEN (IF c = 0 THEN <<>> ELSE <<c>>)
    ELSE LET s == LAt(x, i) + LAt(y, i) + c
         IN  <<s % Limb>> \o LAddFrom(x, y, i + 1, s \div Limb)

LAdd(x, y) == LAddFrom(x, y, 1, 0)

\* 2 * x + bit
LDouble(x, bit) == LAddFrom(x, x, 1, bit)

\* The limbs from the i-th on of x - y - b, for x >= y.
RECURSIVE LSubFrom(_, _, _, _)
LSubFrom(x, y, i, b) ==
    IF i > Len(x) THEN <<>>
    ELSE LET s == x[i] - LAt(y, i) - b
         IN  <<s % Limb>> \o LSubFrom(x, y, i + 1, IF s < 0 THEN 1 ELSE 0)

LSub(x, y) == LNorm(LSubFrom(x, y, 1, 0))

RECURSIVE LCmpAt(_, _, _)
LCmpAt(x, y, i) ==
    IF i = 0 THEN 0
    ELSE IF x[i] > y[i] THEN 1
    ELSE IF x[i] < y[i] THEN 0 - 1
    ELSE LCmpAt(x, y, i - 1)

\* 1, 0 or -1 as x is above, equal to or below y.
LCmp(x, y) ==
    IF Len(x) > Len(y) THEN 1
    ELSE IF Len(x) < Len(y) THEN 0 - 1
    ELSE LCmpAt(x, y, Len(x))

LOdd(x) == x # <<>> /\ x[1] % 2 = 1

\* The limbs from the i-th on of x * k + c, for one limb k.
RECURSIVE LMulFrom(_, _, _, _)
LMulFrom(x, k, i, c) ==
    IF i > Len(x) THEN LFromInt(c)
    ELSE LET s == x[i] * k + c
         IN  <<s % Limb>> \o LMulFrom(x, k, i + 1, s \div Limb)

LMul(x, k) == IF k = 0 THEN <<>> ELSE LMulFrom(x, k, 1, 0)

\* x * 2^k
LShl(x, k) ==
    IF x = <<>> THEN <<>>
    ELSE [i \in 1..(k \div 15) |-> 0] \o LMul(x, 2 ^ (k % 15))

RECURSIVE LTimes(_, _)
LTimes(x, y) ==
    IF x = <<>> \/ y = <<>> THEN <<>>
    ELSE LAdd(LMul(x, y[1]), LShl(LTimes(x, Tail(y)), 15))

RECURSIVE IntBits(_)
IntBits(i) == IF i = 0 THEN 0 ELSE 1 + IntBits(i \div 2)

\* The number of bits of x, and its i-th bit (the lowest is the first).
LBits(x) == IF x = <<>> THEN 0 ELSE 15 * (Len(x) - 1) + IntBits(x[Len(x)])
LBit(x, i) == (LAt(x, (i - 1) \div 15 + 1) \div (2 ^ ((i - 1) % 15))) % 2

\* x \div 2^k
LShr(x, k) ==
    LET w == k \div 15
        r == k % 15
    IN  LNorm([i \in 1..(Len(x) - w) |->
                  x[i + w] \div (2 ^ r)
                      + (LAt(x, i + w + 1) % (2 ^ r)) * (2 ^ (15 - r))])

\* The integer nearest to x / 2^k, ties to even; s tells of a remainder
\* below x.
RoundShift(x, k, s) ==
    LET m      == LShr(x, k)
        guard  == k > 0 /\ LBit(x, k) = 1
        sticky == s \/ \E i \in 1..(k - 1) : LBit(x, i) = 1
    IN  IF guard /\ (sticky \/ LOdd(m)) THEN LAdd(m, <<1>>) ELSE m

\* One step of the long division by d: the next bit of the dividend is
\* brought down to the remainder.
LDivStep(d, st, bit) ==
    LET r2 == LDouble(st.r, bit)
    IN  IF LCmp(r2, d) >= 0 THEN [q |-> LDouble(st.q, 1), r |-> LSub(r2, d)]
        ELSE [q |-> LDouble(st.q, 0), r |-> r2]

\* The steps for the bits hi down to lo of n: the upper half of the bits,
\* then the lower half (the remainder is below d after every step).
RECURSIVE LDivBits(_, _, _, _, _)
LDivBits(n, d, hi, lo, st) ==
    IF hi = lo THEN LDivStep(d, st, LBit(n, hi))
    ELSE LET mid == (hi + lo) \div 2
             up  == LDivBits(n, d, hi, mid + 1, st)
         IN  IF LCmp(up.r, d) < 0 THEN LDivBits(n, d, mid, lo, up) ELSE up

\* Quotient and remainder of n by d.
LDiv(n, d) ==
    IF n = <<>> THEN [q |-> <<>>, r |-> <<>>]
    ELSE LDivBits(n, d, LBits(n), 1, [q |-> <<>>, r |-> <<>>])

\* The double nearest to (-1)^neg * m * 2^e, or to a value just above it in
\* magnitude when s holds: m is cut to 53 bits.
Fl(neg, m, e, s) ==
    LET drop == IF LBits(m) > 53 THEN LBits(m) - 53 ELSE 0
    IN  [neg |-> neg, m |-> RoundShift(m, drop, s), e |-> e + drop]

FZero == [neg |-> FALSE, m |-> <<>>, e |-> 0]

\* float(i) of an int.
FOfInt(i) == Fl(i < 0, LFromInt(Abs(i)), 0, FALSE)

\* The literal 0.44: the double 7926335344172073 * 2^-54.
F044 == [neg |-> FALSE, m |-> <<23593, 1310, 9175, 225>>, e |-> 0 - 54]

FMul(x, y) == Fl(x.neg # y.neg, LTimes(x.m, y.m), x.e + y.e, FALSE)

FAdd(x, y) ==
    LET e  == IF x.e < y.e THEN x.e ELSE y.e
        xm == LShl(x.m, x.e - e)
        ym == LShl(y.m, y.e - e)
    IN  IF x.neg = y.neg THEN Fl(x.neg, LAdd(xm, ym), e, FALSE)
        ELSE IF LCmp(xm, ym) >= 0 THEN Fl(x.neg, LSub(xm, ym), e, FALSE)
        ELSE Fl(y.neg, LSub(ym, xm), e, FALSE)

\* x / y for y # 0: the dividend is shifted so that the quotient has more
\* than 54 bits, the remainder tells whether it is exact.
FDiv(x, y) ==
    IF x.m = <<>> THEN FZero
    ELSE LET k  == 55 + LBits(y.m)
             qr == LDiv(LShl(x.m, k), y.m)
         IN  Fl(x.neg # y.neg, qr.q, x.e - y.e - k, qr.r # <<>>)

\* x > 0
FPositive(x) == x.m # <<>> /\ ~x.neg

\* The double a number of the table or a literal is: an int exactly, n/d as
\* the nearest double.
FOf(x) == IF x.d = 1 THEN FOfInt(x.n) ELSE FDiv(FOfInt(x.n), FOfInt(x.d))

Pow10(k) == IF k = 3 THEN 1000 ELSE IF k = 2 THEN 100 ELSE 1

\* Python round(f, k) of a double f: the multiple of 10^-k nearest to the
\* exact value of f, ties to even (float.__round__ rounds the exact binary
\* value correctly).
RoundDouble(f, k) ==
    LET w == LMul(f.m, Pow10(k))
        t == IF f.e >= 0 THEN LToInt(LShl(w, f.e))
             ELSE LToInt(RoundShift(w, 0 - f.e, FALSE))
    IN  Frac(IF f.neg THEN 0 - t ELSE t, Pow10(k))

\* Python round(f, k) where x is the exact value of the expression that the
\* double f was computed from.  f differs from x by a few units in the 53rd
\* bit, which is less than the distance from x to the nearest midpoint
\* between two multiples of 10^-k unless x lies on such a midpoint: off the
\* midpoints the result is read from x, on them from f itself.
\* round(nan, k) is nan.  (\div floors and % is non-negative for d > 0.)
RoundFloat(x, f, k) ==
    IF x.nan THEN NaN
    ELSE LET num == x.n * Pow10(k)
             q   == num \div x.d
             r   == num % x.d
         IN  IF 2 * r < x.d THEN Frac(q, Pow10(k))
             ELSE IF 2 * r > x.d THEN Frac(q + 1, Pow10(k))
             ELSE RoundDouble(f, k)

\* Python round(x, k) of a number that is an int or the double nearest to
\* n/d.
RoundTo(x, k) == RoundFloat(x, FOf(x), k)

\* int(x): truncation toward zero; int(nan) raises ValueError.
IntFails(x) == x.nan
IntOf(x) == IF x.n >= 0 THEN x.n \div x.d ELSE 0 - ((0 - x.n) \div x.d)

\* float(x): the same value as a float (NaN stays NaN).
FloatOf(x) == x

\* str(i) of a non-negative int: its decimal digits, most significant first.
RECURSIVE Str(_)
Str(i) == IF i < 10 THEN <<i>> ELSE Append(Str(i \div 10), i % 10)

---------------------------------------------------------------------------
(* The CSV source and _load_data.                                          *)

numeric_cols ==
    {"fieldGoalsMade", "fieldGoalsAttempted", "threePointersMade",
     "threePointersAttempted", "freeThrowsMade", "freeThrowsAttempted",
     "reboundsOffensive", "reboundsDefensive", "reboundsTotal", "assists",
     "steals", "blocks", "turnovers", "foulsPersonal", "points",
     "plusMinusPoints"}

id_cols == {"teamId", "personId"}

N(i) == [k |-> "num", v |-> i]
Text == [k |-> "text", v |-> 0]
Empty == [k |-> "empty", v |-> 0]

\* pd.to_numeric(cell, errors="coerce"): the number, or NaN for a cell that
\* is missing or does not parse.
to_numeric(cell) == IF cell.k = "num" THEN Num(cell.v) ELSE NaN

\* Mutant of fillna: the fill is left out.
fillna_skipped(x, value) == x

\* Series.fillna(value)
fillna(x, value) == IF x.nan THEN Num(value) ELSE x

\* Series.astype(int) raises on NaN (IntCastingNaNError).
astype_int_fails(src, col) ==
    \E i \in 1..Len(src) : to_numeric(src[i][col]).nan

load_fails(src) == \E col \in id_cols : astype_int_fails(src, col)

text_cols ==
    {"teamName", "teamTricode", "personName", "position", "minutes",
     "game_date"}

\* The texts of the explored files that parse as a number (decimal integers
\* in canonical form).
numeric_texts == {"35"}

TStr(s) == [k |-> "str", s |-> s]
TNaN == [k |-> "nan", s |-> "nan"]

\* pd.read_csv on a cell of a text column: a missing cell is the float NaN;
\* a column whose cells all parse as numbers is a numeric column (int64, or
\* float64 when a cell is missing); any other cell is its text.
read_csv_text(src, col, cell) ==
    IF cell = "" THEN TNaN
    ELSE IF \A i \in 1..Len(src) : src[i][col] \in numeric_texts \cup {""}
    THEN [k |-> IF \E i \in 1..Len(src) : src[i][col] = "" THEN "float" ELSE "int",
          s |-> cell]
    ELSE TStr(cell)

\* str(x) of a value of a text column, as the sequence of its parts:
\* str(nan) is "nan", str of the float 35.0 is "35.0".
StrOf(x) == IF x.k = "float" THEN <<x.s, ".0">> ELSE <<x.s>>

\* The value is a str (what a str field of a pydantic model takes).
IsStr(x) == x.k = "str"

load_row(src, r) ==
    [c \in DOMAIN r |->
        IF c \in numeric_cols THEN fillna(to_numeric(r[c]), 0)
        ELSE IF c \in id_cols THEN Num(IntOf(to_numeric(r[c])))
        ELSE IF c \in text_cols THEN read_csv_text(src, c, r[c])
        ELSE r[c]]

load_data(src) == [i \in 1..Len(src) |-> load_row(src, src[i])]

\* Module import: DATAFRAME = _load_data(DATA_PATH).  An exception at import
\* keeps the application from starting.
LoadData ==
    /\ phase = "import"
    /\ IF load_fails(source)
       THEN /\ phase' = "failed"
            /\ UNCHANGED DATAFRAME
       ELSE /\ phase' = "serving"
            /\ DATAFRAME' = load_data(source)
    /\ UNCHANGED <<source, response, first>>

---------------------------------------------------------------------------
(* Metric calculators.                                                     *)

\* Mutant of calculate_true_shooting: the guard is denom != 0.
calculate_true_shooting_nonzero(row) ==
    LET fga   == row.fieldGoalsAttempted
        fta   == row.freeThrowsAttempted
        denom == Mul(Num(2), Add(fga, Mul(Frac(44, 100), fta)))
    IN  IF ~denom.nan /\ denom.n # 0 THEN Div(row.points, denom) ELSE Num(0)

\* Mutant of calculate_true_shooting: the factor 2 is left out.
calculate_true_shooting_halved(row) ==
    LET fga   == row.fieldGoalsAttempted
        fta   == row.freeThrowsAttempted
        denom == Add(fga, Mul(Frac(44, 100), fta))
    IN  IF Gt(denom, Num(0)) THEN Div(row.points, denom) ELSE Num(0)

\* The exact value of the expression of _calculate_true_shooting.
calculate_true_shooting(row) ==
    LET fga   == row.fieldGoalsAttempted
        fta   == row.freeThrowsAttempted
        denom == Mul(Num(2), Add(fga, Mul(Frac(44, 100), fta)))
    IN  IF Gt(denom, Num(0)) THEN Div(row.points, denom) ELSE Num(0)

\* The double _calculate_true_shooting returns: the same expression, every
\* operation rounded to a double.
float_true_shooting(row) ==
    LET fga   == FOf(row.fieldGoalsAttempted)
        fta   == FOf(row.freeThrowsAttempted)
        denom == FMul(FOfInt(2), FAdd(fga, FMul(F044, fta)))
    IN  IF FPositive(denom) THEN FDiv(FOf(row.points), denom) ELSE FZero

\* round(_calculate_true_shooting(row), 3)
round_true_shooting(row) ==
    RoundFloat(calculate_true_shooting(row), float_true_shooting(row), 3)

\* Mutant of calculate_efficiency: the score is clamped at zero.
calculate_efficiency_clamped(row) ==
    LET positive == Add(Add(Add(Add(row.points, row.reboundsTotal), row.assists),
                            row.steals), row.blocks)
        negative == Add(Add(Sub(row.fieldGoalsAttempted, row.fieldGoalsMade),
                            Sub(row.freeThrowsAttempted, row.freeThrowsMade)),
                        row.turnovers)
    IN  IF Gt(negative, positive) THEN Num(0) ELSE Sub(positive, negative)

calculate_efficiency(row) ==
    LET made      == row.fieldGoalsMade
        attempted == row.fieldGoalsAttempted
        ftm       == row.freeThrowsMade
        fta       == row.freeThrowsAttempted
        rebounds  == row.reboundsTotal
        assists   == row.assists
        steals    == row.steals
        blocks    == row.blocks
        turnovers == row.turnovers
        points    == row.points
    IN  Sub(Add(Add(Add(Add(points, rebounds), assists), steals), blocks),
            Add(Add(Sub(attempted, made), Sub(fta, ftm)), turnovers))

---------------------------------------------------------------------------
(* Responses.                                                              *)

EmptyBody ==
    [games |-> <<>>, players |-> <<>>, labels |-> <<>>, points |-> <<>>,
     true_shooting |-> <<>>, momentum |-> <<>>]

NoResponse == [op |-> "none", game_id |-> <<>>, status |-> 0, body |-> EmptyBody]

Reply(op, game_id, status, body) ==
    [op |-> op, game_id |-> game_id, status |-> status, body |-> body]

\* raise HTTPException(status_code=404, detail="Game not found")
NotFound(op, game_id) == Reply(op, game_id, 404, EmptyBody)

\* An exception the handler does not catch: the framework answers 500.
ServerError(op, game_id) == Reply(op, game_id, 500, EmptyBody)

---------------------------------------------------------------------------
(* Query layer.                                                            *)

\* The integer a string of digits denotes.
RECURSIVE IntOfDigits(_)
IntOfDigits(q) ==
    IF q = <<>> THEN 0
    ELSE 10 * IntOfDigits(SubSeq(q, 1, Len(q) - 1)) + q[Len(q)]

\* Mutant of df_game: the ids are compared as integers.
df_game_numeric(df, game_id) ==
    SelectSeq(df, LAMBDA row : row.gameId = IntOfDigits(game_id))

\* DATAFRAME[DATAFRAME["gameId"].astype(str) == str(game_id)]: the rows whose
\* gameId, as a string, equals the path parameter, in table order.
df_game(df, game_id) == SelectSeq(df, LAMBDA row : Str(row.gameId) = game_id)

\* The ints a PlayerStats is built from; int() of a NaN raises.
int_fields ==
    {"teamId", "personId", "points", "reboundsTotal", "assists", "steals",
     "blocks", "turnovers", "plusMinusPoints"}

\* The str fields of PlayerStats that are passed a cell of the row as it is.
str_fields == {"teamName", "teamTricode", "personName", "position", "minutes"}

\* PlayerStats(...) raises: int() of a NaN (ValueError), or a str field
\* given a value that is not a str (pydantic ValidationError).
PlayerStats_raises(row) ==
    \/ \E c \in int_fields : IntFails(row[c])
    \/ \E c \in str_fields : ~IsStr(row[c])

PlayerStats(row) ==
    [gameId        |-> Str(row.gameId),
     teamId        |-> IntOf(row.teamId),
     teamName      |-> row.teamName.s,
     teamTricode   |-> row.teamTricode.s,
     personId      |-> IntOf(row.personId),
     personName    |-> row.personName.s,
     position      |-> row.position.s,
     minutes       |-> row.minutes.s,
     points        |-> IntOf(row.points),
     rebounds      |-> IntOf(row.reboundsTotal),
     assists       |-> IntOf(row.assists),
     steals        |-> IntOf(row.steals),
     blocks        |-> IntOf(row.blocks),
     turnovers     |-> IntOf(row.turnovers),
     true_shooting |-> round_true_shooting(row),
     efficiency    |-> RoundTo(calculate_efficiency(row), 2),
     plusMinus     |-> IntOf(row.plusMinusPoints)]

players_reply(df, game_id) ==
    LET rows == df_game(df, game_id)
    IN  IF rows = <<>> THEN NotFound("players", game_id)
        ELSE IF \E i \in 1..Len(rows) : PlayerStats_raises(rows[i])
        THEN ServerError("players", game_id)
        ELSE Reply("players", game_id, 200,
                   [EmptyBody EXCEPT
                       !.players = [i \in 1..Len(rows) |-> PlayerStats(rows[i])]])

\* ChartData(labels=labels, ...) raises: labels is a List[str] and a label
\* is not a str (pydantic ValidationError).
ChartData_raises(rows) == \E i \in 1..Len(rows) : ~IsStr(rows[i].personName)

charts_reply(df, game_id) ==
    LET rows == df_game(df, game_id)
    IN  IF rows = <<>> THEN NotFound("charts", game_id)
        ELSE IF ChartData_raises(rows) THEN ServerError("charts", game_id)
        ELSE Reply("charts", game_id, 200,
                   [EmptyBody EXCEPT
                       !.labels = [i \in 1..Len(rows) |-> rows[i].personName.s],
                       !.points = [i \in 1..Len(rows) |-> FloatOf(rows[i].points)],
                       !.true_shooting =
                           [i \in 1..Len(rows) |->
                               round_true_shooting(rows[i])],
                       !.momentum =
                           [i \in 1..Len(rows) |-> FloatOf(rows[i].plusMinusPoints)]])

\* DataFrame.groupby("gameId") yields the groups in ascending key order.
RECURSIVE SortedKeys(_)
SortedKeys(S) ==
    IF S = {} THEN <<>>
    ELSE LET m == CHOOSE x \in S : \A y \in S : x <= y
         IN  <<m>> \o SortedKeys(S \ {m})

\* group[["teamName"]].drop_duplicates()["teamName"].tolist(): the distinct
\* values of the column, each at its first occurrence (NaN equals NaN here).
RECURSIVE drop_duplicates(_)
drop_duplicates(names) ==
    IF names = <<>> THEN <<>>
    ELSE LET front == drop_duplicates(SubSeq(names, 1, Len(names) - 1))
             last  == names[Len(names)]
         IN  IF \E j \in 1..Len(front) : front[j] = last
             THEN front ELSE Append(front, last)

\* f"{teams[0]} vs. {teams[1]}" if len(teams) > 1 else teams[0]: the
\* f-string as the sequence of the parts concatenated (a NaN is formatted
\* as "nan"), the single value as it is.
teams_display(teams) ==
    IF Len(teams) > 1 THEN StrOf(teams[1]) \o <<" vs. ">> \o StrOf(teams[2])
    ELSE <<teams[1].s>>

\* The rows of a group and the distinct values of its teamName column.
group_of(df, game_id) == SelectSeq(df, LAMBDA row : row.gameId = game_id)
teams_of(group) == drop_duplicates([i \in 1..Len(group) |-> group[i].teamName])

\* GameInfo(...) raises: teams is a List[str] and the only value of the
\* group's teamName column is not a str (pydantic ValidationError).
GameInfo_raises(df, game_id) ==
    LET teams == teams_of(group_of(df, game_id))
    IN  Len(teams) <= 1 /\ ~IsStr(teams[1])

GameInfo(df, game_id) ==
    LET group == group_of(df, game_id)
        date  == group[1].game_date
    IN  [gameId |-> Str(game_id), game_date |-> StrOf(date),
         teams |-> <<teams_display(teams_of(group))>>]

games_reply(df) ==
    LET keys == SortedKeys({df[i].gameId : i \in 1..Len(df)})
    IN  IF \E k \in 1..Len(keys) : GameInfo_raises(df, keys[k])
        THEN ServerError("games", <<>>)
        ELSE Reply("games", <<>>, 200,
                   [EmptyBody EXCEPT
                       !.games = [k \in 1..Len(keys) |-> GameInfo(df, keys[k])]])

\* GET /games
list_games ==
    /\ phase = "serving"
    /\ response' = games_reply(DATAFRAME)
    /\ UNCHANGED <<source, phase, DATAFRAME>>

\* Mutant of game_players: the rows served are dropped from the table.
game_players_consuming(game_id) ==
    /\ phase = "serving"
    /\ response' = players_reply(DATAFRAME, game_id)
    /\ DATAFRAME' = SelectSeq(DATAFRAME, LAMBDA row : Str(row.gameId) # game_id)
    /\ UNCHANGED <<source, phase>>

\* GET /game/{game_id}/players
game_players(game_id) ==
    /\ phase = "serving"
    /\ response' = players_reply(DATAFRAME, game_id)
    /\ UNCHANGED <<source, phase, DATAFRAME>>

\* GET /game/{game_id}/charts
game_charts(game_id) ==
    /\ phase = "serving"
    /\ response' = charts_reply(DATAFRAME, game_id)
    /\ UNCHANGED <<source, phase, DATAFRAME>>

---------------------------------------------------------------------------
(* The explored CSV files.                                                 *)

GameIdCells == {7, 10}
TeamNames == {"Celtics", "Heat", "Lakers"}
\* The teamName cells of files with a missing team name.
TeamCells == {"Celtics", "Heat", ""}
Dates == {"2024-04-21", "2024-04-24"}
PersonNames == <<"Tatum", "Butler", "Brown", "Adebayo", "White", "Herro">>

\* The path parameters requested: "7", "10", "07" and "1".
QueryIds == {<<7>>, <<1, 0>>, <<0, 7>>, <<1>>}

\* A well-formed stat line (the efficiency example of the specification).
ExampleCells ==
    [fieldGoalsMade |-> N(8), fieldGoalsAttempted |-> N(18),
     threePointersMade |-> N(2), threePointersAttempted |-> N(6),
     freeThrowsMade |-> N(4), freeThrowsAttempted |-> N(5),
     reboundsOffensive |-> N(2), reboundsDefensive |-> N(8),
     reboundsTotal |-> N(10), assists |-> N(5), steals |-> N(2),
     blocks |-> N(1), turnovers |-> N(3), foulsPersonal |-> N(2),
     points |-> N(20), plusMinusPoints |-> N(0 - 7),
     teamIdOk |-> TRUE, personIdOk |-> TRUE, text |-> "full"]

\* A stat line with malformed and missing numeric cells.
MalformedCells ==
    [ExampleCells EXCEPT
        !.points = Text, !.fieldGoalsAttempted = Empty, !.freeThrowsMade = Text,
        !.reboundsTotal = Empty, !.turnovers = Text, !.plusMinusPoints = Empty,
        !.threePointersMade = Text, !.foulsPersonal = Empty]

\* A stat line whose team and player identifiers do not parse.
BadIdCells == [ExampleCells EXCEPT !.teamIdOk = FALSE, !.personIdOk = FALSE]

StatLines == {ExampleCells, MalformedCells, BadIdCells}

\* The line of a player who did not start: no position and no minutes.
BenchCells == [ExampleCells EXCEPT !.text = "bench"]

\* A line without the player's name.
UnnamedCells == [ExampleCells EXCEPT !.text = "unnamed"]

\* A line whose minutes are a whole number, written 35.
WholeMinutesCells == [ExampleCells EXCEPT !.text = "whole minutes"]

TextLines == {ExampleCells, BenchCells, UnnamedCells, WholeMinutesCells}

\* The i-th row of a file: game g, team t, date d, stat line.
MakeRow(i, g, t, d, line) ==
    [c \in numeric_cols |-> line[c]] @@
    [gameId      |-> g,
     game_date   |-> d,
     teamId      |-> IF line.teamIdOk
                     THEN N(CASE t = "Celtics" -> 38 [] t = "Heat" -> 48
                                 [] OTHER -> 47)
                     ELSE Text,
     teamName    |-> t,
     teamTricode |-> CASE t = "Celtics" -> "BOS" [] t = "Heat" -> "MIA"
                          [] t = "" -> "" [] OTHER -> "LAL",
     personId    |-> IF line.personIdOk THEN N(100 + i) ELSE Empty,
     personName  |-> IF line.text = "unnamed" THEN "" ELSE PersonNames[i],
     position    |-> IF line.text = "bench" THEN ""
                     ELSE IF i % 2 = 1 THEN "F" ELSE "G",
     minutes     |-> CASE line.text = "bench" -> ""
                       [] line.text = "whole minutes" -> "35"
                       [] OTHER -> "35:20"]

\* The file whose i-th row is made of the choices c[i].
FileOf(c) == [i \in DOMAIN c |-> MakeRow(i, c[i][1], c[i][2], c[i][3], c[i][4])]

Start(file) ==
    /\ source = file
    /\ phase = "import"
    /\ DATAFRAME = <<>>
    /\ response = NoResponse
    /\ first = [resp |-> NoResponse, again |-> FALSE]

\* Files that vary in game and team; in game, team (missing or not) and
\* date; in game and in how well-formed the numeric and identifier cells
\* are; in game and in which text cells are missing or numeric.
Init ==
    \E n \in 0..MaxRows :
        \/ \E c \in [1..n -> GameIdCells \X TeamNames \X {"2024-04-21"}
                                  \X {ExampleCells}] :
              Start(FileOf(c))
        \/ \E c \in [1..n -> GameIdCells \X TeamCells \X Dates \X {ExampleCells}] :
              Start(FileOf(c))
        \/ \E c \in [1..n -> GameIdCells \X {"Celtics"} \X {"2024-04-21"}
                                  \X StatLines] :
              Start(FileOf(c))
        \/ \E c \in [1..n -> GameIdCells \X {"Celtics"} \X {"2024-04-21"}
                                  \X TextLines] :
              Start(FileOf(c))

Next ==
    \/ LoadData
    \/ list_games /\ UNCHANGED first
    \/ \E q \in QueryIds : game_players(q) /\ UNCHANGED first
    \/ \E q \in QueryIds : game_charts(q) /\ UNCHANGED first

Spec == Init /\ [][Next]_vars

---------------------------------------------------------------------------
(* One-row files over ranges of the counting stats, for the metrics.       *)

\* points, field-goal attempts and free-throw attempts over ranges.
ShootingLines ==
    {[ExampleCells EXCEPT !.points = N(p), !.fieldGoalsAttempted = N(a),
                          !.freeThrowsAttempted = N(b)] :
        p \in (0 - 1)..MaxPoints, a \in 0..MaxFGA, b \in (0 - 1)..MaxFTA}

\* every stat the efficiency reads: zero or the value of the example.
Either(cell) == {N(0), cell}

RatingLines ==
    {[ExampleCells EXCEPT
         !.points = c[1], !.reboundsTotal = c[2], !.assists = c[3],
         !.steals = c[4], !.blocks = c[5], !.fieldGoalsMade = c[6],
         !.fieldGoalsAttempted = c[7], !.freeThrowsMade = c[8],
         !.freeThrowsAttempted = c[9], !.turnovers = c[10]] :
        c \in Either(N(20)) \X Either(N(10)) \X Either(N(5)) \X Either(N(2))
              \X Either(N(1)) \X Either(N(8)) \X Either(N(18)) \X Either(N(4))
              \X Either(N(5)) \X Either(N(3))}

\* rows whose True Shooting is an exact half in the third decimal, and
\* whose double lies off the half: 33 / (2 * (11 + 0.44 * 15)) = 0.9375 is
\* computed as 0.9374999999999999, 1 / 2000 and 5 / 2000 are not doubles.
TieLines ==
    {[ExampleCells EXCEPT !.points = N(c[1]), !.fieldGoalsAttempted = N(c[2]),
                          !.freeThrowsAttempted = N(c[3])] :
        c \in {<<33, 11, 15>>, <<1, 1000, 0>>, <<5, 1000, 0>>}}

InitMetric ==
    \/ \E line \in RatingLines :
          Start(<<MakeRow(1, 7, "Celtics", "2024-04-21", line)>>)
    \/ \E line \in TieLines :
          Start(<<MakeRow(1, 7, "Celtics", "2024-04-21", line)>>)
    \/ \E line \in ShootingLines :
          Start(<<MakeRow(1, 7, "Celtics", "2024-04-21", line)>>)

SpecMetric == InitMetric /\ [][Next]_vars

---------------------------------------------------------------------------
(* The same program with an observer that keeps the first response.        *)

SameRequest(r1, r2) == r1.op = r2.op /\ r1.game_id = r2.game_id

Observe ==
    first' = IF first.resp.op = "none" THEN [resp |-> response', again |-> FALSE]
             ELSE IF SameRequest(first.resp, response')
                  THEN [first EXCEPT !.again = TRUE]
                  ELSE first

InitRepeat ==
    \E n \in 0..MaxRows :
        \E c \in [1..n -> GameIdCells \X {"Celtics"} \X {"2024-04-21"}
                               \X {ExampleCells, MalformedCells, BenchCells}] :
            Start(FileOf(c))

NextRepeat ==
    \/ LoadData
    \/ list_games /\ Observe
    \/ \E q \in QueryIds : game_players(q) /\ Observe
    \/ \E q \in QueryIds : game_charts(q) /\ Observe

SpecRepeat == InitRepeat /\ [][NextRepeat]_vars

---------------------------------------------------------------------------
(* Properties.  They are stated over the CSV rows and the responses, with  *)
(* integer arithmetic of their own.                                        *)

\* The rows of the file whose gameId, written in decimal, is the string q.
Matching(q) == {i \in 1..Len(source) : Str(source[i].gameId) = q}

\* The k-th smallest element of a set of row indices.
Kth(M, k) == CHOOSE j \in M : Cardinality({i \in M : i <= j}) = k

Answered(ops) == response.op \in ops /\ phase = "serving"

\* C1: a game id whose string form matches no row of the table makes both
\* game_players and game_charts fail with 404 and an empty body; an id that
\* matches at least one row never gives 404.
C1_NotFoundExactlyWhenAbsent ==
    Answered({"players", "charts"}) =>
        IF \E i \in 1..Len(DATAFRAME) : Str(DATAFRAME[i].gameId) = response.game_id
        THEN response.status # 404
        ELSE response.status = 404 /\ response.body = EmptyBody

\* "07" is asked of a table that holds game 7, and "10" of one holding game 10.
C1_Witness ==
    /\ Answered({"charts"})
    /\ response.game_id = <<0, 7>>
    /\ response.status = 404
    /\ \E i \in 1..Len(DATAFRAME) : DATAFRAME[i].gameId = 7
    /\ \E i \in 1..Len(DATAFRAME) : DATAFRAME[i].gameId = 10

\* C2: for a game id present in the table, game_players returns one entry
\* per row of that game, in file order, each carrying the queried id, and no
\* row of another game.
C2_PlayersAreTheRowsOfTheGame ==
    Answered({"players"}) /\ Matching(response.game_id) # {} =>
        LET M == Matching(response.game_id)
            players == response.body.players
        IN  /\ response.status = 200
            /\ Len(players) = Cardinality(M)
            /\ Len(players) > 0
            /\ \A k \in 1..Len(players) :
                  /\ players[k].gameId = response.game_id
                  /\ players[k].personName = source[Kth(M, k)].personName
                  /\ players[k].personId = source[Kth(M, k)].personId.v
                  /\ players[k].teamName = source[Kth(M, k)].teamName

\* The value of a numeric cell as _load_data leaves it: the literal, or zero.
CellValue(cell) == IF cell.k = "num" THEN cell.v ELSE 0

\* Twenty-five times the True Shooting denominator 2*(FGA + 0.44*FTA).
Denom25(r) ==
    50 * CellValue(r.fieldGoalsAttempted) + 22 * CellValue(r.freeThrowsAttempted)

\* x is t thousandths, where t is an integer nearest to 1000 * (p / q),
\* q > 0: at most half a thousandth away (either neighbour of an exact half).
IsRounded3(x, p, q) ==
    /\ ~x.nan
    /\ 1000 % x.d = 0
    /\ LET t == x.n * (1000 \div x.d)
           e == 2 * (1000 * p - t * q)
       IN  e <= q /\ 0 - q <= e

\* x is the True Shooting of file row r rounded to three decimals: points
\* over the denominator when the denominator is positive, 0.0 otherwise.
IsTrueShooting3(x, r) ==
    IF Denom25(r) > 0
    THEN IsRounded3(x, 25 * CellValue(r.points), Denom25(r))
    ELSE x = Num(0)

\* C6: for a game with n rows game_charts returns labels, points,
\* true_shooting and momentum of length n, the i-th entries being the name,
\* points, rounded True Shooting and plus-minus of the i-th row of the game
\* in file order.
C6_ChartsAlignedWithRows ==
    Answered({"charts"}) /\ Matching(response.game_id) # {} =>
        LET M == Matching(response.game_id)
            n == Cardinality(M)
            b == response.body
        IN  /\ response.status = 200
            /\ Len(b.labels) = n /\ Len(b.points) = n
            /\ Len(b.true_shooting) = n /\ Len(b.momentum) = n
            /\ \A k \in 1..n :
                  LET r == source[Kth(M, k)]
                  IN  /\ b.labels[k] = r.personName
                      /\ b.points[k] = Num(CellValue(r.points))
                      /\ IsTrueShooting3(b.true_shooting[k], r)
                      /\ b.momentum[k] = Num(CellValue(r.plusMinusPoints))

\* C7: list_games returns exactly one entry per distinct gameId of the table.
C7_OneEntryPerGame ==
    Answered({"games"}) =>
        LET games == response.body.games
            ids   == {source[i].gameId : i \in 1..Len(source)}
        IN  /\ Len(games) = Cardinality(ids)
            /\ \A a, b \in 1..Len(games) : a # b => games[a].gameId # games[b].gameId
            /\ \A g \in ids : \E k \in 1..Len(games) : games[k].gameId = Str(g)

\* C9: the teams display of an entry is "<A> vs. <B>" for the first and the
\* second team name met in the game's rows when the game has exactly two
\* distinct names, the name alone when it has one, and the entry's date is
\* the date of the game's first row.  (A missing teamName cell is not a name.)
C9_TeamsDisplayAndDate ==
    Answered({"games"}) =>
        \A k \in 1..Len(response.body.games) :
            LET e     == response.body.games[k]
                M     == Matching(e.gameId)
                named == {i \in M : source[i].teamName # ""}
                names == {source[i].teamName : i \in named}
                a     == source[Kth(named, 1)].teamName
                rest  == {i \in named : source[i].teamName # a}
            IN  /\ M # {}
                /\ e.game_date = <<source[Kth(M, 1)].game_date>>
                /\ Cardinality(names) = 1 => e.teams = << <<a>> >>
                /\ Cardinality(names) = 2 =>
                      e.teams = << <<a, " vs. ", source[Kth(rest, 1)].teamName>> >>

\* The numbers a response carries.
ResponseNumbers ==
    LET b == response.body
    IN  {b.players[k].true_shooting : k \in 1..Len(b.players)}
        \cup {b.players[k].efficiency : k \in 1..Len(b.players)}
        \cup {b.points[k] : k \in 1..Len(b.points)}
        \cup {b.true_shooting[k] : k \in 1..Len(b.true_shooting)}
        \cup {b.momentum[k] : k \in 1..Len(b.momentum)}

Malformed(cell) == cell.k # "num"

\* The table rows, among those of the set M of row indices, in which a
\* column of cols does not hold a str.
NotText(M, cols) == {i \in M : \E c \in cols : ~IsStr(DATAFRAME[i][c])}

\* C10: a malformed or missing cell of a numeric column never fails the
\* load and never drops the row: the load fails only on an identifier cell,
\* the table has a row per file row, every stat of the table is a number
\* (zero where the cell was malformed, the literal otherwise), no response
\* carries a NaN, and no request fails on account of a numeric cell: an
\* error other than 404 comes with a text cell that is not a str, and
\* game_players and game_charts answer every game whose text cells are
\* strings.
C10_MalformedCellsBecomeZero ==
    /\ phase = "failed" =>
          \E i \in 1..Len(source) : \E c \in id_cols : Malformed(source[i][c])
    /\ phase = "serving" =>
          /\ Len(DATAFRAME) = Len(source)
          /\ \A i \in 1..Len(source) : \A c \in numeric_cols :
                /\ ~DATAFRAME[i][c].nan
                /\ DATAFRAME[i][c] = Num(CellValue(source[i][c]))
          /\ \A x \in ResponseNumbers : ~x.nan
          /\ response.status \in {0, 200, 404, 500}
          /\ response.status = 500 =>
                CASE response.op = "players" ->
                        NotText(Matching(response.game_id), str_fields) # {}
                  [] response.op = "charts" ->
                        NotText(Matching(response.game_id), {"personName"}) # {}
                  [] OTHER -> NotText(1..Len(source), {"teamName"}) # {}
          /\ Answered({"players", "charts"}) /\ Matching(response.game_id) # {}
                /\ NotText(Matching(response.game_id), str_fields) = {}
                => response.status = 200

\* game_players has answered for a game whose row has malformed and missing
\* stats: zero points, zero rebounds, True Shooting 0.0, efficiency
\* (0 + 0 + 5 + 2 + 1) - ((0 - 8) + (5 - 0) + 0) = 11.
C10_Witness ==
    /\ Answered({"players"})
    /\ response.status = 200
    /\ Len(source) = 2
    /\ source[1].gameId = 7 /\ source[2].gameId = 10
    /\ source[1].points = Text /\ source[1].fieldGoalsAttempted = Empty
    /\ response.game_id = <<7>>
    /\ response.body.players[1].points = 0
    /\ response.body.players[1].rebounds = 0
    /\ response.body.players[1].true_shooting = Num(0)
    /\ response.body.players[1].efficiency = Num(11)

\* C8: no request changes the loaded table, and a request answered again,
\* after any other requests, gets the answer it got the first time.
C8_RepeatedQuerySameResult ==
    /\ [](SameRequest(first.resp, response) => response = first.resp)
    /\ [][phase = "serving" => DATAFRAME' = DATAFRAME /\ source' = source]_vars

\* game_players for game 7 was the first request, other requests followed,
\* and it has just been answered again.
C8_Witness ==
    /\ first.again
    /\ first.resp.op = "players" /\ first.resp.status = 200
    /\ first.resp.game_id = <<7>>
    /\ response = first.resp
    /\ Len(response.body.players) = 2

\* The file rows a successful game_players or game_charts answer is about.
Served(ops) ==
    IF Answered(ops) /\ response.status = 200
    THEN Matching(response.game_id) ELSE {}

\* C3 as stated: True Shooting of every row is in [0, +infinity) and is 0.0
\* exactly when fieldGoalsAttempted = 0 and freeThrowsAttempted = 0.
C3_AsStated ==
    \A i \in Served({"players", "charts"}) :
        LET ts == calculate_true_shooting(DATAFRAME[i])
        IN  /\ ~ts.nan
            /\ ts.n >= 0
            /\ ts.n = 0 <=> /\ CellValue(source[i].fieldGoalsAttempted) = 0
                            /\ CellValue(source[i].freeThrowsAttempted) = 0

\* C3, amended: True Shooting is a number; it is not negative for a row whose
\* points are not negative; it is 0.0 exactly when points = 0 or the
\* denominator 2*(FGA + 0.44*FTA) is not positive, so whenever both attempt
\* counts are zero, and also for a row with attempts and no points.
C3_ZeroExactlyWhenNoPointsOrNoDenominator ==
    \A i \in Served({"players", "charts"}) :
        LET ts == calculate_true_shooting(DATAFRAME[i])
            r  == source[i]
        IN  /\ ~ts.nan
            /\ CellValue(r.points) >= 0 => ts.n >= 0
            /\ ts.n = 0 <=> (CellValue(r.points) = 0 \/ Denom25(r) <= 0)
            /\ CellValue(r.fieldGoalsAttempted) = 0
                  /\ CellValue(r.freeThrowsAttempted) = 0 => ts.n = 0

\* A player who attempted shots and scored nothing: True Shooting is 0.0.
C3_Witness ==
    /\ Served({"players"}) = {1}
    /\ source[1].points = N(0)
    /\ source[1].fieldGoalsAttempted = N(7)
    /\ source[1].freeThrowsAttempted = N(2)
    /\ calculate_true_shooting(DATAFRAME[1]) = Num(0)
    /\ response.body.players[1].true_shooting = Num(0)

\* The True Shooting values a successful answer reports, each with its file row.
ReportedTrueShooting ==
    LET M == Served({"players", "charts"})
    IN  {<<IF response.op = "players"
           THEN response.body.players[k].true_shooting
           ELSE response.body.true_shooting[k],
           source[Kth(M, k)]>> : k \in 1..Cardinality(M)}

\* C4 as stated: the reported value is points / (2*(FGA + 0.44*FTA)) rounded
\* to three decimals whenever the denominator is not zero, and 0.0 when it is.
C4_AsStated ==
    \A xr \in ReportedTrueShooting :
        LET x == xr[1]
            p == 25 * CellValue(xr[2].points)
            q == Denom25(xr[2])
        IN  IF q > 0 THEN IsRounded3(x, p, q)
            ELSE IF q < 0 THEN IsRounded3(x, 0 - p, 0 - q)
            ELSE x = Num(0)

\* The row has these points, field-goal attempts and free-throw attempts.
Shot(r, p, a, b) ==
    /\ r.points = N(p)
    /\ r.fieldGoalsAttempted = N(a)
    /\ r.freeThrowsAttempted = N(b)

\* C4, amended: the reported value is points / (2*(FGA + 0.44*FTA)) rounded
\* to three decimals whenever the denominator is positive, and 0.0 when the
\* denominator is zero or negative; points=30, FGA=20, FTA=5 gives 0.676.
\* A quotient that is an exact half in the third decimal goes to the side
\* its double lies on: 0.9375 computed as 0.9374999999999999 gives 0.937,
\* 0.0005 gives 0.001 and 0.0025 gives 0.003; 15/16 computed exactly (points
\* 15, FGA 8) goes to the even neighbour 0.938.
C4_TrueShootingFormula ==
    \A xr \in ReportedTrueShooting :
        /\ IsTrueShooting3(xr[1], xr[2])
        /\ Shot(xr[2], 30, 20, 5) => xr[1] = Frac(676, 1000)
        /\ Shot(xr[2], 33, 11, 15) => xr[1] = Frac(937, 1000)
        /\ Shot(xr[2], 1, 1000, 0) => xr[1] = Frac(1, 1000)
        /\ Shot(xr[2], 5, 1000, 0) => xr[1] = Frac(3, 1000)
        /\ Shot(xr[2], 15, 8, 0) => xr[1] = Frac(938, 1000)

\* game_charts reports 0.676 for points=30, FGA=20, FTA=5.
C4_Witness ==
    /\ Served({"charts"}) = {1}
    /\ source[1].points = N(30)
    /\ source[1].fieldGoalsAttempted = N(20)
    /\ source[1].freeThrowsAttempted = N(5)
    /\ response.body.true_shooting = <<Frac(676, 1000)>>

\* (PTS + REB + AST + STL + BLK) - ((FGA - FGM) + (FTA - FTM) + TO) of a file row.
Rating(r) ==
    (CellValue(r.points) + CellValue(r.reboundsTotal) + CellValue(r.assists)
        + CellValue(r.steals) + CellValue(r.blocks))
    - ((CellValue(r.fieldGoalsAttempted) - CellValue(r.fieldGoalsMade))
        + (CellValue(r.freeThrowsAttempted) - CellValue(r.freeThrowsMade))
        + CellValue(r.turnovers))

\* C5: the efficiency game_players reports is
\* (PTS + REB + AST + STL + BLK) - ((FGA - FGM) + (FTA - FTM) + TO), never
\* clamped: negative when the negative terms exceed the positive ones.  The
\* example row of the specification gives 24.
C5_EfficiencyFormulaUnclamped ==
    LET M == Served({"players"})
    IN  \A k \in 1..Cardinality(M) :
            LET r == source[Kth(M, k)]
                e == response.body.players[k].efficiency
            IN  /\ e = Num(Rating(r))
                /\ Rating(r) < 0 => e.n < 0
                /\ [c \in numeric_cols |-> r[c]]
                      = [c \in numeric_cols |-> ExampleCells[c]] => e = Num(24)

\* Eighteen missed shots, five missed free throws and three turnovers with
\* nothing else: the efficiency reported is -26.
C5_Witness ==
    /\ Served({"players"}) = {1}
    /\ Rating(source[1]) = 0 - 26
    /\ source[1].points = N(0)
    /\ response.body.players[1].efficiency = Num(0 - 26)

===========================================================================
